---- MODULE Spec2Model ----
(***************************************************************************)
(* codeintel-api-schema-validator (src/main.py): one run of main().        *)
(* parse_args -> load_data(data) -> load_data(schema) -> validate_data ->  *)
(* print / exit.  The file system, the two parsers (json.load,             *)
(* yaml.safe_load) and the jsonschema engine are the environment: what     *)
(* they answer is chosen when the code consults them and recorded in env   *)
(* and engine.  Exceptions are Python classes with their base classes, and *)
(* every except chain picks the first clause the raised class is an        *)
(* instance of.                                                            *)
(***************************************************************************)
EXTENDS Integers, Sequences, FiniteSets, TLC

VARIABLES argv,      \* the argument vector given to the process
          args,      \* <<namespace>> once parse_args has returned, <<>> before
          rootLevel, \* level of the root logger
          pc,        \* position of the run
          cur,       \* file the current load_data call works on
          fileType,  \* local file_type of each load_data call
          handles,   \* files with an open handle
          parser,    \* parser run on each file's content
          env,       \* what the file system and the parsers answered
          engine,    \* what jsonschema.validate answered
          exc,       \* class of the exception in flight / last raised
          category,  \* failure category at the point of detection
          failedIn,  \* stage and file in which the failure was detected
          logs,      \* calls to logging.*, in order
          out,       \* lines printed, in order
          exitCode,  \* <<status>> once the process has exited, <<>> before
          stages     \* stages of main entered, in order

vars == <<argv, args, rootLevel, pc, cur, fileType, handles, parser, env,
          engine, exc, category, failedIn, logs, out, exitCode, stages>>

None == "None"

\* Python None where a str is expected (argparse never yields the empty str)
NoStr == <<>>

(***************************************************************************)
(* Text.  A Python str is a sequence of one-character strings.             *)
(***************************************************************************)
Str_json == <<"j", "s", "o", "n">>
Str_yaml == <<"y", "a", "m", "l">>
Str_yml  == <<"y", "m", "l">>
Str_xml  == <<"x", "m", "l">>

\* str.lower() on the characters the paths use
LowerChar(c) ==
    CASE c = "J" -> "j" [] c = "S" -> "s" [] c = "O" -> "o" [] c = "N" -> "n"
      [] c = "Y" -> "y" [] c = "M" -> "m" [] c = "L" -> "l" [] c = "A" -> "a"
      [] c = "D" -> "d" [] c = "T" -> "t" [] c = "X" -> "x"
      [] OTHER -> c

Lower(s) == [i \in 1..Len(s) |-> LowerChar(s[i])]

\* s.split('.'): the pieces of s between the dots, at least one piece
RECURSIVE SplitDot(_)
SplitDot(s) ==
    IF \A i \in 1..Len(s) : s[i] # "."
    THEN <<s>>
    ELSE LET k == CHOOSE i \in 1..Len(s) :
                      s[i] = "." /\ \A j \in 1..(i-1) : s[j] # "."
         IN  <<SubSeq(s, 1, k-1)>> \o SplitDot(SubSeq(s, k+1, Len(s)))

\* seq[-1]
LastOf(seq) == seq[Len(seq)]

(***************************************************************************)
(* Inputs.                                                                 *)
(***************************************************************************)
Paths ==
    { <<"d", ".", "j", "s", "o", "n">>,
      <<"d", ".", "J", "S", "O", "N">>,
      <<"d", ".", "y", "a", "m", "l">>,
      <<"d", ".", "Y", "M", "L">>,
      <<"d", ".", "j", "s", "o", "n", ".", "y", "m", "l">>,
      <<"d", ".", "t", "x", "t">>,
      <<"j", "s", "o", "n">> }

MaxPositionals == 3

\* positional arguments: p, q, p, ... cut after n of them
Positionals ==
    { [i \in 1..n |-> IF i % 2 = 1 THEN p ELSE q] :
        p \in Paths, q \in Paths, n \in 0..MaxPositionals }

TypeChoices  == {Str_json, Str_yaml}
LevelChoices == {"DEBUG", "INFO", "WARNING", "ERROR", "CRITICAL"}

\* values a command line gives to the flags (NoStr, None: flag absent)
TypeFlagValues  == {NoStr} \cup TypeChoices \cup {Str_xml}
LevelFlagValues == {None, "ERROR", "TRACE"}
HelpFlagValues  == {None, "first", "last"}

Argvs ==
    [ pos : Positionals, data_type : TypeFlagValues,
      schema_type : TypeFlagValues, log_level : LevelFlagValues,
      help : HelpFlagValues ]

Files == {"data", "schema"}

(***************************************************************************)
(* Exception classes and except chains.                                    *)
(***************************************************************************)
Base(c) ==
    CASE c = "FileNotFoundError"  -> "OSError"
      [] c = "PermissionError"    -> "OSError"
      [] c = "IsADirectoryError"  -> "OSError"
      [] c = "OSError"            -> "Exception"
      [] c = "JSONDecodeError"    -> "ValueError"
      [] c = "UnicodeDecodeError" -> "ValueError"
      [] c = "ValueError"         -> "Exception"
      [] c = "YAMLError"          -> "Exception"
      [] c = "ValidationError"    -> "Exception"
      [] c = "SchemaError"        -> "Exception"
      [] c = "TypeError"          -> "Exception"
      [] OTHER                    -> "BaseException"

RECURSIVE IsInstance(_, _)
IsInstance(c, t) ==
    \/ c = t
    \/ c \notin {"Exception", "BaseException"} /\ IsInstance(Base(c), t)

\* the first clause of an except chain that catches class c
Caught(chain, c) ==
    chain[CHOOSE i \in 1..Len(chain) :
            /\ IsInstance(c, chain[i].cls)
            /\ \A j \in 1..(i-1) : ~IsInstance(c, chain[j].cls)]

LoadHandlers ==
    << [cls |-> "FileNotFoundError", msg |-> "File not found"],
       [cls |-> "JSONDecodeError",   msg |-> "Error decoding JSON"],
       [cls |-> "YAMLError",         msg |-> "Error decoding YAML"],
       [cls |-> "Exception",         msg |-> "Error loading data"] >>

ValidateHandlers ==
    << [cls |-> "ValidationError", msg |-> "Data validation failed"],
       [cls |-> "SchemaError",     msg |-> "Schema validation failed"],
       [cls |-> "Exception",
           msg |-> "An unexpected error occurred during validation"] >>

MainHandlers ==
    << [cls |-> "FileNotFoundError", msg |-> "Error: "],
       [cls |-> "ValueError",        msg |-> "Error: "],
       [cls |-> "ValidationError",   msg |-> "Validation Error: "],
       [cls |-> "SchemaError",       msg |-> "Schema Error: "],
       [cls |-> "Exception",         msg |-> "An unexpected error occurred: "] >>

SuccessLine == "Validation successful!"

ErrorRecord(fn, msg) == [level |-> "ERROR", by |-> fn, msg |-> msg]
InfoRecord(fn, msg)  == [level |-> "INFO",  by |-> fn, msg |-> msg]

(***************************************************************************)
(* State after the interpreter has run the module body (line 10).          *)
(***************************************************************************)
NoAnswer == [exists |-> "unknown", open |-> "unknown", parse |-> "unknown"]

Init ==
    /\ argv \in Argvs
    /\ args = <<>>
    /\ rootLevel = "INFO"
    /\ pc = "parse_args"
    /\ cur = None
    /\ fileType = [f \in Files |-> NoStr]
    /\ handles = {}
    /\ parser = [f \in Files |-> None]
    /\ env = [f \in Files |-> NoAnswer]
    /\ engine = "unknown"
    /\ exc = None
    /\ category = None
    /\ failedIn = None
    /\ logs = <<>>
    /\ out = <<>>
    /\ exitCode = <<>>
    /\ stages = <<>>

(***************************************************************************)
(* main, lines 96-100: parse_args and setLevel.                            *)
(***************************************************************************)
\* argparse rejects the vector: a flag value outside its choices, a missing
\* positional, or a positional too many
\* as BadChoice, with choices= left off --data_type
BadChoice_NoDataChoices(a) ==
    \/ a.schema_type \notin {NoStr} \cup TypeChoices
    \/ a.log_level \notin {None} \cup LevelChoices

BadChoice(a) ==
    \/ a.data_type \notin {NoStr} \cup TypeChoices
    \/ a.schema_type \notin {NoStr} \cup TypeChoices
    \/ a.log_level \notin {None} \cup LevelChoices

UsageError(a) == BadChoice(a) \/ Len(a.pos) # 2

\* -h is acted on when it is met: before everything, or after the flags
HelpShown(a) == a.help = "first" \/ (a.help = "last" /\ ~BadChoice(a))

Namespace(a) ==
    [ data_file   |-> a.pos[1],
      schema_file |-> a.pos[2],
      data_type   |-> a.data_type,
      schema_type |-> a.schema_type,
      log_level   |-> IF a.log_level = None THEN "INFO" ELSE a.log_level ]

\* status argparse exits with on a usage error
ArgparseErrorStatus == 2

ParseArgsHelp ==
    /\ pc = "parse_args"
    /\ HelpShown(argv)
    /\ stages' = Append(stages, "parse_args")
    /\ out' = Append(out, "usage")
    /\ exitCode' = <<0>>
    /\ pc' = "done"
    /\ UNCHANGED <<argv, args, rootLevel, cur, fileType, handles, parser, env,
                   engine, exc, category, failedIn, logs>>

ParseArgsError ==
    /\ pc = "parse_args"
    /\ ~HelpShown(argv)
    /\ UsageError(argv)
    /\ stages' = Append(stages, "parse_args")
    /\ exitCode' = <<ArgparseErrorStatus>>
    /\ pc' = "done"
    /\ UNCHANGED <<argv, args, rootLevel, cur, fileType, handles, parser, env,
                   engine, exc, category, failedIn, logs, out>>

ParseArgs ==
    /\ pc = "parse_args"
    /\ ~HelpShown(argv)
    /\ ~UsageError(argv)
    /\ stages' = Append(stages, "parse_args")
    /\ args' = <<Namespace(argv)>>
    /\ rootLevel' = Namespace(argv).log_level
    /\ cur' = "data"
    /\ pc' = "ld_enter"
    /\ UNCHANGED <<argv, fileType, handles, parser, env, engine, exc,
                   category, failedIn, logs, out, exitCode>>

(***************************************************************************)
(* load_data, lines 24-65, called at lines 103 and 104.                    *)
(***************************************************************************)
PathOf(f)     == IF f = "data" THEN args[1].data_file ELSE args[1].schema_file
ExplicitOf(f) == IF f = "data" THEN args[1].data_type ELSE args[1].schema_type
StageOf(f)    == IF f = "data" THEN "load_data_file" ELSE "load_schema_file"

\* as ResolveType, without .lower()
ResolveType_NoLower(file_type, file_path) ==
    IF file_type = NoStr
    THEN LastOf(SplitDot(file_path))
    ELSE file_type

\* lines 43-44
ResolveType(file_type, file_path) ==
    IF file_type = NoStr
    THEN Lower(LastOf(SplitDot(file_path)))
    ELSE file_type

\* the branch of lines 48-53 taken for a resolved type
ParserFor(file_type) ==
    IF file_type = Str_json THEN "json"
    ELSE IF file_type = Str_yaml \/ file_type = Str_yml THEN "yaml"
    ELSE "unsupported"

Raise(cls, cat, where) ==
    /\ exc' = cls
    /\ category' = cat
    /\ failedIn' = where

\* as LoadNotFound, without the check of line 40: the call goes on to open
LoadNotFound_NoCheck ==
    /\ pc = "ld_enter"
    /\ stages' = Append(stages, StageOf(cur))
    /\ env' = [env EXCEPT ![cur].exists = "no"]
    /\ fileType' = [fileType EXCEPT
                      ![cur] = ResolveType(ExplicitOf(cur), PathOf(cur))]
    /\ pc' = "ld_open"
    /\ UNCHANGED <<argv, args, rootLevel, cur, handles, parser, engine, exc,
                   category, failedIn, logs, out, exitCode>>

\* lines 40-41: the path does not exist; raised outside the try block
LoadNotFound ==
    /\ pc = "ld_enter"
    /\ stages' = Append(stages, StageOf(cur))
    /\ env' = [env EXCEPT ![cur].exists = "no"]
    /\ Raise("FileNotFoundError", "NotFound", cur)
    /\ pc' = "m_except"
    /\ UNCHANGED <<argv, args, rootLevel, cur, fileType, handles, parser,
                   engine, logs, out, exitCode>>

\* lines 40-44: the path exists; file_type is resolved
LoadResolve ==
    /\ pc = "ld_enter"
    /\ stages' = Append(stages, StageOf(cur))
    /\ env' = [env EXCEPT ![cur].exists = "yes"]
    /\ fileType' = [fileType EXCEPT
                      ![cur] = ResolveType(ExplicitOf(cur), PathOf(cur))]
    /\ pc' = "ld_open"
    /\ UNCHANGED <<argv, args, rootLevel, cur, handles, parser, engine, exc,
                   category, failedIn, logs, out, exitCode>>

OpenFailures == {"PermissionError", "IsADirectoryError", "FileNotFoundError"}

\* line 47: open(file_path, 'r') returns a handle
LoadOpen ==
    /\ pc = "ld_open"
    /\ env' = [env EXCEPT ![cur].open = "ok"]
    /\ handles' = handles \cup {cur}
    /\ pc' = "ld_body"
    /\ UNCHANGED <<argv, args, rootLevel, cur, fileType, parser, engine, exc,
                   category, failedIn, logs, out, exitCode, stages>>

\* line 47: open raises (unreadable, a directory, removed since line 40)
LoadOpenFails ==
    /\ pc = "ld_open"
    /\ \E r \in OpenFailures :
         /\ env' = [env EXCEPT ![cur].open = r]
         /\ Raise(r, IF r = "FileNotFoundError" THEN "NotFound" ELSE "IOError",
                  cur)
    /\ pc' = "ld_except"
    /\ UNCHANGED <<argv, args, rootLevel, cur, fileType, handles, parser,
                   engine, logs, out, exitCode, stages>>

ParseFailures(p) ==
    IF p = "json" THEN {"JSONDecodeError", "UnicodeDecodeError"}
    ELSE {"YAMLError", "UnicodeDecodeError"}

\* lines 48-51: json.load / yaml.safe_load returns the document
LoadParse ==
    /\ pc = "ld_body"
    /\ ParserFor(fileType[cur]) # "unsupported"
    /\ parser' = [parser EXCEPT ![cur] = ParserFor(fileType[cur])]
    /\ env' = [env EXCEPT ![cur].parse = "ok"]
    /\ pc' = "ld_exit"
    /\ UNCHANGED <<argv, args, rootLevel, cur, fileType, handles, engine, exc,
                   category, failedIn, logs, out, exitCode, stages>>

\* lines 48-51: the parser raises on the content
LoadParseFails ==
    /\ pc = "ld_body"
    /\ ParserFor(fileType[cur]) # "unsupported"
    /\ parser' = [parser EXCEPT ![cur] = ParserFor(fileType[cur])]
    /\ \E r \in ParseFailures(ParserFor(fileType[cur])) :
         /\ env' = [env EXCEPT ![cur].parse = r]
         /\ Raise(r, IF r = "UnicodeDecodeError" THEN "IOError"
                     ELSE "ParseError", cur)
    /\ pc' = "ld_exit"
    /\ UNCHANGED <<argv, args, rootLevel, cur, fileType, handles, engine,
                   logs, out, exitCode, stages>>

\* as LoadUnsupported, with the else branch handing the file to the YAML parser
LoadUnsupported_AsYaml ==
    /\ pc = "ld_body"
    /\ ParserFor(fileType[cur]) = "unsupported"
    /\ parser' = [parser EXCEPT ![cur] = "yaml"]
    /\ env' = [env EXCEPT ![cur].parse = "ok"]
    /\ pc' = "ld_exit"
    /\ UNCHANGED <<argv, args, rootLevel, cur, fileType, handles, engine, exc,
                   category, failedIn, logs, out, exitCode, stages>>

\* lines 52-53
LoadUnsupported ==
    /\ pc = "ld_body"
    /\ ParserFor(fileType[cur]) = "unsupported"
    /\ Raise("ValueError", "UnsupportedType", cur)
    /\ pc' = "ld_exit"
    /\ UNCHANGED <<argv, args, rootLevel, cur, fileType, handles, parser, env,
                   engine, logs, out, exitCode, stages>>

\* as LoadExit, with f.close() after the parse instead of a with block
LoadExit_CloseOnSuccess ==
    /\ pc = "ld_exit"
    /\ handles' = IF exc = None THEN handles \ {cur} ELSE handles
    /\ pc' = IF exc = None THEN "ld_return" ELSE "ld_except"
    /\ UNCHANGED <<argv, args, rootLevel, cur, fileType, parser, env, engine,
                   exc, category, failedIn, logs, out, exitCode, stages>>

\* line 47, leaving the with block: the handle is closed, by a return and
\* by an exception alike
LoadExit ==
    /\ pc = "ld_exit"
    /\ handles' = handles \ {cur}
    /\ pc' = IF exc = None THEN "ld_return" ELSE "ld_except"
    /\ UNCHANGED <<argv, args, rootLevel, cur, fileType, parser, env, engine,
                   exc, category, failedIn, logs, out, exitCode, stages>>

\* as LoadExcept, without the raise: load_data returns None
LoadExcept_NoReraise ==
    /\ pc = "ld_except"
    /\ logs' = Append(logs, ErrorRecord("load_data",
                                        Caught(LoadHandlers, exc).msg))
    /\ pc' = "ld_return"
    /\ UNCHANGED <<argv, args, rootLevel, cur, fileType, handles, parser, env,
                   engine, exc, category, failedIn, out, exitCode, stages>>

\* lines 54-65: log, then re-raise
LoadExcept ==
    /\ pc = "ld_except"
    /\ logs' = Append(logs, ErrorRecord("load_data",
                                        Caught(LoadHandlers, exc).msg))
    /\ pc' = "m_except"
    /\ UNCHANGED <<argv, args, rootLevel, cur, fileType, handles, parser, env,
                   engine, exc, category, failedIn, out, exitCode, stages>>

\* the call of line 103 returns; line 104 calls load_data for the schema
LoadDataReturn ==
    /\ pc = "ld_return"
    /\ cur = "data"
    /\ cur' = "schema"
    /\ pc' = "ld_enter"
    /\ UNCHANGED <<argv, args, rootLevel, fileType, handles, parser, env,
                   engine, exc, category, failedIn, logs, out, exitCode,
                   stages>>

\* the call of line 104 returns; line 105 calls validate_data
LoadSchemaReturn ==
    /\ pc = "ld_return"
    /\ cur = "schema"
    /\ cur' = None
    /\ pc' = "validate"
    /\ UNCHANGED <<argv, args, rootLevel, fileType, handles, parser, env,
                   engine, exc, category, failedIn, logs, out, exitCode,
                   stages>>

(***************************************************************************)
(* validate_data, lines 67-90.                                             *)
(***************************************************************************)
EngineFailures == {"ValidationError", "SchemaError", "TypeError"}

EngineCategory(r) ==
    CASE r = "ValidationError" -> "DataViolatesSchema"
      [] r = "SchemaError"     -> "SchemaInvalid"
      [] OTHER                 -> "Unexpected"

\* lines 80-81: the engine accepts
ValidateOk ==
    /\ pc = "validate"
    /\ stages' = Append(stages, "validate")
    /\ engine' = "ok"
    /\ logs' = Append(logs, InfoRecord("validate_data",
                                       "Data validation successful."))
    /\ pc' = "m_print"
    /\ UNCHANGED <<argv, args, rootLevel, cur, fileType, handles, parser, env,
                   exc, category, failedIn, out, exitCode>>

\* line 80: the engine raises
ValidateFails ==
    /\ pc = "validate"
    /\ stages' = Append(stages, "validate")
    /\ \E r \in EngineFailures :
         /\ engine' = r
         /\ Raise(r, EngineCategory(r), "validate")
    /\ pc' = "v_except"
    /\ UNCHANGED <<argv, args, rootLevel, cur, fileType, handles, parser, env,
                   logs, out, exitCode>>

\* lines 82-90: log, then re-raise
ValidateExcept ==
    /\ pc = "v_except"
    /\ logs' = Append(logs, ErrorRecord("validate_data",
                                        Caught(ValidateHandlers, exc).msg))
    /\ pc' = "m_except"
    /\ UNCHANGED <<argv, args, rootLevel, cur, fileType, handles, parser, env,
                   engine, exc, category, failedIn, out, exitCode, stages>>

(***************************************************************************)
(* main, lines 106-122: report and exit.                                   *)
(***************************************************************************)
\* line 106, then main returns
MainPrint ==
    /\ pc = "m_print"
    /\ stages' = Append(stages, "report")
    /\ out' = Append(out, SuccessLine)
    /\ exitCode' = <<0>>
    /\ pc' = "done"
    /\ UNCHANGED <<argv, args, rootLevel, cur, fileType, handles, parser, env,
                   engine, exc, category, failedIn, logs>>

\* as MainHandlers, with the two jsonschema clauses' messages exchanged
MainHandlers_Swapped ==
    << [cls |-> "FileNotFoundError", msg |-> "Error: "],
       [cls |-> "ValueError",        msg |-> "Error: "],
       [cls |-> "ValidationError",   msg |-> "Schema Error: "],
       [cls |-> "SchemaError",       msg |-> "Validation Error: "],
       [cls |-> "Exception",         msg |-> "An unexpected error occurred: "] >>

MainPrefix_Swapped(c) == Caught(MainHandlers_Swapped, c).msg

\* the prefix the except chain of lines 108-122 prints for class c
MainPrefix(c) == Caught(MainHandlers, c).msg

\* status given to exit() at lines 110, 113, 116, 119, 122
MainFailureStatus == 1

\* as MainExcept, without the exit(1) calls: main returns
MainExcept_NoExit ==
    /\ pc = "m_except"
    /\ stages' = Append(stages, "report")
    /\ out' = Append(out, MainPrefix(exc))
    /\ exitCode' = <<0>>
    /\ pc' = "done"
    /\ UNCHANGED <<argv, args, rootLevel, cur, fileType, handles, parser, env,
                   engine, exc, category, failedIn, logs>>

\* lines 108-122
MainExcept ==
    /\ pc = "m_except"
    /\ stages' = Append(stages, "report")
    /\ out' = Append(out, MainPrefix(exc))
    /\ exitCode' = <<MainFailureStatus>>
    /\ pc' = "done"
    /\ UNCHANGED <<argv, args, rootLevel, cur, fileType, handles, parser, env,
                   engine, exc, category, failedIn, logs>>

Next ==
    \/ ParseArgsHelp \/ ParseArgsError \/ ParseArgs
    \/ LoadNotFound \/ LoadResolve \/ LoadOpen \/ LoadOpenFails
    \/ LoadParse \/ LoadParseFails \/ LoadUnsupported
    \/ LoadExit \/ LoadExcept \/ LoadDataReturn \/ LoadSchemaReturn
    \/ ValidateOk \/ ValidateFails \/ ValidateExcept
    \/ MainPrint \/ MainExcept

Spec == Init /\ [][Next]_vars

(***************************************************************************)
(* Properties.                                                             *)
(***************************************************************************)
Range(seq) == {seq[i] : i \in 1..Len(seq)}

IsPrefix(s, t) == Len(s) <= Len(t) /\ \A i \in 1..Len(s) : s[i] = t[i]

Exited == pc = "done"
Parsed == args # <<>>

\* the file was there, could be opened and its content parsed
FileLoads(f) ==
    env[f].exists = "yes" /\ env[f].open = "ok" /\ env[f].parse = "ok"

UnexpectedPrefix == "An unexpected error occurred: "

\* the line the reporter printed
Reported == out[Len(out)]

\* C1: once the arguments are parsed, the run exits 0 and prints
\* "Validation successful!" exactly when both files load and the engine
\* accepts; otherwise it exits 1 and the success line is never printed.
C1_ExitCodeContract ==
    LET ok == FileLoads("data") /\ FileLoads("schema") /\ engine = "ok"
    IN  /\ SuccessLine \in Range(out) => ok
        /\ (Exited /\ Parsed) =>
             /\ ok => exitCode = <<0>> /\ out = <<SuccessLine>>
             /\ ~ok => exitCode = <<1>> /\ SuccessLine \notin Range(out)

C1_Witness ==
    /\ Exited /\ Parsed
    /\ FileLoads("data") /\ FileLoads("schema") /\ engine = "ok"
    /\ exitCode = <<0>>
    /\ out = <<SuccessLine>>

\* C2: whenever an exception leaves load_data or validate_data, that function
\* has made an error-level log call for it.
C2_ErrorLoggedBeforePropagation ==
    pc = "m_except" =>
        \E i \in 1..Len(logs) :
            /\ logs[i].level = "ERROR"
            /\ logs[i].by = IF failedIn = "validate" THEN "validate_data"
                            ELSE "load_data"

\* C3: content that is not valid for the resolved format fails as a parse
\* error of that format, and the reporter never prints it as unexpected.
C3_ParseErrorNotUnexpected ==
    category = "ParseError" =>
        /\ exc = IF parser[failedIn] = "json" THEN "JSONDecodeError"
                 ELSE "YAMLError"
        /\ Exited => Reported # UnexpectedPrefix

\* C4: the reporter prints "Error: " for NotFound and UnsupportedType,
\* "Validation Error: " for a data violation, "Schema Error: " for an invalid
\* schema, and the unexpected line for none of these four.
C4_PrefixPerCategory ==
    (Exited /\ category # None) =>
        /\ category \in {"NotFound", "UnsupportedType"} =>
             Reported = "Error: "
        /\ category = "DataViolatesSchema" => Reported = "Validation Error: "
        /\ category = "SchemaInvalid" => Reported = "Schema Error: "
        /\ Reported = UnexpectedPrefix =>
             category \notin {"NotFound", "UnsupportedType",
                              "DataViolatesSchema", "SchemaInvalid"}

C4_Witness ==
    /\ Exited
    /\ engine = "SchemaError"
    /\ category = "SchemaInvalid"
    /\ out = <<"Schema Error: ">>

\* the lower-cased text after the last '.' of a path that has one
ExtensionOf(p) ==
    LET last == CHOOSE i \in 1..Len(p) :
                    p[i] = "." /\ \A j \in (i+1)..Len(p) : p[j] # "."
    IN  [k \in 1..(Len(p) - last) |-> LowerChar(p[last + k])]

\* the branch of load_data taken for file f is behind the run
Dispatched(f) == env[f].open = "ok" /\ ~(cur = f /\ pc = "ld_body")

\* C5: the parser run on each file is the one of its explicit type when
\* given, else the one of the lower-cased text after the last '.' of its
\* path (json: JSON; yaml, yml: YAML; other: none), for each file by itself.
C5_FormatResolution ==
    \A f \in Files :
        Dispatched(f) =>
            IF ExplicitOf(f) # NoStr
            THEN parser[f] = IF ExplicitOf(f) = Str_json THEN "json"
                             ELSE "yaml"
            ELSE "." \in Range(PathOf(f)) =>
                   LET ext == ExtensionOf(PathOf(f))
                   IN  parser[f] = IF ext = Str_json THEN "json"
                                   ELSE IF ext \in {Str_yaml, Str_yml}
                                        THEN "yaml"
                                        ELSE None

C5_Witness ==
    /\ Dispatched("data") /\ Dispatched("schema")
    /\ args[1].data_file = <<"d", ".", "j", "s", "o", "n">>
    /\ args[1].data_type = Str_yaml
    /\ parser["data"] = "yaml"
    /\ args[1].schema_file = <<"d", ".", "J", "S", "O", "N">>
    /\ args[1].schema_type = NoStr
    /\ parser["schema"] = "json"

\* C6: a path that does not exist fails with NotFound whatever its type,
\* without an attempt to open it, and the run exits 1.
C6_MissingPathNotFound ==
    \A f \in Files :
        env[f].exists = "no" =>
            /\ category = "NotFound"
            /\ exc = "FileNotFoundError"
            /\ failedIn = f
            /\ env[f].open = "unknown"
            /\ handles = {}
            /\ parser[f] = None
            /\ pc \in {"m_except", "done"}
            /\ Exited => exitCode = <<1>>

C6_Witness ==
    /\ Exited
    /\ env["schema"].exists = "no"
    /\ args[1].schema_file = <<"d", ".", "t", "x", "t">>
    /\ category = "NotFound"
    /\ exitCode = <<1>>

\* the resolved type of f's load is neither json nor yaml/yml
Unsupported(f) ==
    /\ env[f].exists = "yes"
    /\ fileType[f] \notin {Str_json, Str_yaml, Str_yml}

\* C7 as stated: an existing path of unsupported type fails with
\* UnsupportedType and with no other category.
C7_UnsupportedOnly ==
    \A f \in Files :
        (Unsupported(f) /\ failedIn = f) => category = "UnsupportedType"

\* C7 as amended: for an existing path of unsupported type no parser is run;
\* when the file opens the load fails with UnsupportedType, reported as
\* "Error: " with exit 1; when open raises, the load fails with that I/O
\* failure instead.
C7_UnsupportedAfterOpen ==
    \A f \in Files :
        (Unsupported(f) /\ ~(cur = f /\ pc \in {"ld_open", "ld_body"})) =>
            /\ parser[f] = None
            /\ env[f].parse = "unknown"
            /\ failedIn = f
            /\ env[f].open = "ok" =>
                 /\ category = "UnsupportedType"
                 /\ exc = "ValueError"
                 /\ Exited => Reported = "Error: " /\ exitCode = <<1>>
            /\ env[f].open # "ok" =>
                 /\ env[f].open \in OpenFailures
                 /\ exc = env[f].open
                 /\ category \in {"IOError", "NotFound"}
                 /\ Exited => exitCode = <<1>>

C7_Witness ==
    /\ Exited
    /\ Unsupported("data")
    /\ env["data"].open = "ok"
    /\ category = "UnsupportedType"
    /\ out = <<"Error: ">>

\* C8 as stated: every run exits with 0 or 1.
C8_ExitZeroOrOne ==
    Exited => exitCode \in {<<0>>, <<1>>}

\* the vector has a flag value outside its choices or not two positionals,
\* and no -h that is acted on first
Rejected ==
    LET bad == \/ argv.data_type \notin {NoStr, Str_json, Str_yaml}
               \/ argv.schema_type \notin {NoStr, Str_json, Str_yaml}
               \/ argv.log_level \notin
                    {None, "DEBUG", "INFO", "WARNING", "ERROR", "CRITICAL"}
    IN  \/ argv.help = None /\ (bad \/ Len(argv.pos) # 2)
        \/ argv.help = "last" /\ bad

\* C8 as amended: a run whose arguments parse exits with 0 or 1; a vector
\* argparse rejects exits with 2, and only such a vector does.
C8_ExitStatus ==
    Exited =>
        /\ Len(exitCode) = 1
        /\ exitCode[1] \in {0, 1, 2}
        /\ Parsed => exitCode[1] \in {0, 1}
        /\ exitCode[1] = 2 <=> Rejected
        /\ Rejected => ~Parsed

C8_Witness ==
    /\ Exited
    /\ argv.help = None
    /\ argv.data_type = Str_xml
    /\ Len(argv.pos) = 2
    /\ exitCode = <<2>>

StageOrder == <<"parse_args", "load_data_file", "load_schema_file", "validate">>

\* the stages entered before the report
Worked ==
    IF stages # <<>> /\ stages[Len(stages)] = "report"
    THEN SubSeq(stages, 1, Len(stages) - 1)
    ELSE stages

\* C9: the stages run in the fixed order, each at most once; the schema is
\* loaded only after the data file loaded, the engine runs only after both
\* loaded, and after a failure no later stage runs, so a missing data file
\* is the failure reported whatever the schema file is.
C9_StagesInOrder ==
    /\ IsPrefix(Worked, StageOrder)
    /\ "load_schema_file" \in Range(stages) => FileLoads("data")
    /\ "validate" \in Range(stages) => FileLoads("data") /\ FileLoads("schema")
    /\ failedIn = "data" =>
         /\ Worked = SubSeq(StageOrder, 1, 2)
         /\ env["schema"] = NoAnswer
         /\ engine = "unknown"
    /\ failedIn = "schema" =>
         /\ Worked = SubSeq(StageOrder, 1, 3)
         /\ engine = "unknown"
    /\ category # None => pc \in {"ld_exit", "ld_except", "v_except",
                                  "m_except", "done"}
    /\ env["data"].exists = "no" =>
         failedIn = "data" /\ env["schema"].exists = "unknown"
    /\ Exited => stages[Len(stages)] \in {"report", "parse_args"}

C9_Witness ==
    /\ Exited
    /\ env["data"].exists = "no"
    /\ failedIn = "data"
    /\ stages = <<"parse_args", "load_data_file", "report">>
    /\ out = <<"Error: ">>

\* C10: at most one handle is open, only inside the load_data call that
\* opened it, and none is open once that call returns or raises.
C10_HandleScope ==
    /\ Cardinality(handles) <= 1
    /\ handles # {} => handles = {cur} /\ pc \in {"ld_body", "ld_exit"}
    /\ pc \in {"ld_body", "ld_exit"} => handles = {cur}

C10_Witness ==
    /\ pc = "ld_except"
    /\ cur = "schema"
    /\ env["schema"].open = "ok"
    /\ category = "ParseError"
    /\ handles = {}

====
